---- MODULE Spec2Model ----
(***************************************************************************)
(* Browser-side controllers of the trading console:                        *)
(*   app/static/js/dashboard.js       dashboard polling, cards, actions    *)
(*   app/static/js/api_management.js  API-key table and add/edit form      *)
(*   app/static/js/add_strategy.js    add-strategy form                    *)
(* Every async function is a call record in `calls'; its `pc' is the await *)
(* it is suspended at.  One action is one run-to-completion slice of a     *)
(* handler (from an event or a resolved promise to the next await).        *)
(***************************************************************************)
EXTENDS Integers, Sequences, FiniteSets, TLC

VARIABLES
    page,               \* which page's script is loaded
    calls,              \* async calls suspended at an await
    nextId,             \* id the next async call gets (issue order)
    ev,                 \* the event whose handler slice ran last (type, target id,
                        \* and what confirm() returned or whether a request went out)
    alertMsg,           \* the alert() that slice raised (modal: dismissed before the next)
    srv,                \* backend: status of each strategy
    container,          \* #strategy-cards-container content
    loadingMessage,     \* const loadingMessage: "null" | "attached" | "detached"
    loadingText,        \* textContent of #loading-strategies
    timerActive,        \* the setInterval registration
    lastGet,            \* the dashboard fetch that left its last await most recently
    maxResolved,        \* highest id among dashboard fetches that rendered
    apiSrv,             \* backend: stored API-key records (ids)
    table,              \* #apiKeysTable tbody content
    currentEditApiId,   \* let currentEditApiId
    formTitle,          \* #formTitle textContent
    form,               \* field values of #apiKeyForm
    secretRequired,     \* #secret_key .required
    secretPlaceholder,  \* #secret_key .placeholder
    formVisible,        \* #addEditApiKeyFormContainer display = block
    item,               \* a dashboard item handed to the card renderer
    card,               \* the card rendered for it
    strategyForm,       \* control values of #addStrategyForm
    strategyDefaults,   \* the values the template gives them (what reset() restores)
    apiKeySelect,       \* #api_id options
    timeoutDisplay      \* #orderTimeoutSecondsContainer style.display

sharedVars == <<page, calls, nextId, alertMsg, ev>>
dashVars == <<srv, container, loadingMessage, loadingText, timerActive, lastGet, maxResolved>>
apiVars == <<apiSrv, table, currentEditApiId, formTitle, form, secretRequired,
             secretPlaceholder, formVisible>>
renderVars == <<item, card>>
addVars == <<strategyForm, strategyDefaults, apiKeySelect, timeoutDisplay>>
vars == <<sharedVars, dashVars, apiVars, renderVars, addVars>>

-----------------------------------------------------------------------------
(* Bounds *)
MaxCalls == 3       \* async calls issued in one dashboard page life
MaxApiCalls == 3    \* async calls issued in one API-key page life
MaxQty == 2         \* current_position_quantity ranges over 0..MaxQty
MaxPrice == 2       \* prices range over 0..MaxPrice
MaxInvested == 2    \* total_invested_usdt ranges over 0..MaxInvested
MaxStrategyCalls == 2   \* async calls issued in one add-strategy page life
MaxLen == 2         \* characters a text input holds at most

-----------------------------------------------------------------------------
(* JSON values: null is the empty tuple, a present value v is <<v>>. *)
Null == <<>>
Some(v) == <<v>>
Val(x) == x[1]

Abs(n) == IF n < 0 THEN 0 - n ELSE n
Pow10(d) == IF d = 2 THEN 100 ELSE IF d = 4 THEN 10000 ELSE 1

(* A piece of rendered text: a literal, or the decimal string of           *)
(* scaled / 10^digits that Number.prototype.toFixed(digits) produces.      *)
Lit(s) == [txt |-> s, scaled |-> 0, digits |-> 0]

(* (num / den).toFixed(digits): the nearest multiple of 10^-digits, a tie  *)
(* going away from zero; a zero divisor gives Infinity or NaN.             *)
ToFixedRatio(num, den, digits) ==
    IF den = 0
    THEN Lit(IF num = 0 THEN "NaN" ELSE IF num > 0 THEN "Infinity" ELSE "-Infinity")
    ELSE LET n == IF den < 0 THEN 0 - num ELSE num
             d == Abs(den)
             q == (2 * Abs(n) * Pow10(digits) + d) \div (2 * d)
         IN  [txt |-> "num", scaled |-> IF n < 0 THEN 0 - q ELSE q, digits |-> digits]

ToFixed(x, digits) == ToFixedRatio(x, 1, digits)

(* x != null ? x.toFixed(digits) : dflt *)
FixedOr(x, digits, dflt) == IF x # Null THEN ToFixed(Val(x), digits) ELSE Lit(dflt)

-----------------------------------------------------------------------------
(* dashboard.js renderStrategyCards, the body of forEach(item => ...).      *)
(* A card keeps the texts the code computes; the name, pair and API-id     *)
(* prefix of line 66-67 are copied from the config and are left out.       *)

StatusText(state) ==
    IF state # Null
    THEN (IF Val(state).is_running THEN "Running" ELSE "Paused/Stopped")
    ELSE "Not Started"

RunPauseButtonText(state) ==
    IF state # Null /\ Val(state).is_running THEN "Pause" ELSE "Run"

(* line 44: the branch that computes figures *)
HasPositionBadGuard(state, currentPrice) ==
    state # Null /\ Val(state).current_position_quantity > 0

HasPosition(state, currentPrice) ==
    state # Null /\ Val(state).current_position_quantity > 0 /\ currentPrice # Null

(* line 48 *)
PnlPercentageUnguarded(unrealizedPnl, totalInvested) ==
    ToFixedRatio(unrealizedPnl * 100, totalInvested, 2)

PnlPercentage(unrealizedPnl, totalInvested) ==
    IF totalInvested # 0
    THEN ToFixedRatio(unrealizedPnl * 100, totalInvested, 2)
    ELSE ToFixed(0, 2)

NoText == Lit("")

RenderCard(it) ==
    LET config == it.strategy_config
        state == it.active_state
        currentPrice == it.current_market_price
        statusText == StatusText(state)
        priceNum == IF currentPrice # Null THEN Val(currentPrice) ELSE 0  \* ToNumber(null) = 0
        base == [strategyId |-> config.id,
                 statusText |-> statusText,
                 priceText |-> FixedOr(currentPrice, 4, "N/A"),
                 runPauseButtonText |-> RunPauseButtonText(state)]
    IN  IF HasPosition(state, currentPrice)
        THEN LET st == Val(state)
                 positionValue == st.current_position_quantity * priceNum
                 unrealizedPnl == (priceNum - st.average_entry_price) * st.current_position_quantity
                 pnlPercentage == PnlPercentage(unrealizedPnl, st.total_invested_usdt)
             IN  base @@
                 [positionInfo |-> [kind |-> "figures",
                                    avgEntry |-> FixedOr(Some(st.average_entry_price), 4, "N/A"),
                                    quantity |-> FixedOr(Some(st.current_position_quantity), 4, "N/A"),
                                    value |-> ToFixed(positionValue, 2)],
                  pnlInfo |-> [kind |-> "figures",
                               realized |-> FixedOr(Some(st.realized_pnl_usdt), 2, "0.00"),
                               cls |-> IF unrealizedPnl >= 0 THEN "profit" ELSE "loss",
                               unrealized |-> ToFixed(unrealizedPnl, 2),
                               percentage |-> pnlPercentage]]
        ELSE IF state # Null
        THEN base @@
             [positionInfo |-> [kind |-> "Position: No current position",
                                avgEntry |-> NoText, quantity |-> NoText, value |-> NoText],
              pnlInfo |-> [kind |-> "realized only",
                           realized |-> FixedOr(Some(Val(state).realized_pnl_usdt), 2, "0.00"),
                           cls |-> "",
                           unrealized |-> Lit("-"),
                           percentage |-> NoText]]
        ELSE base @@
             [positionInfo |-> [kind |-> "Position: Not active or no position",
                                avgEntry |-> NoText, quantity |-> NoText, value |-> NoText],
              pnlInfo |-> [kind |-> "P&L: -",
                           realized |-> NoText, cls |-> "",
                           unrealized |-> NoText, percentage |-> NoText]]

(* strategiesData.forEach(...): one card per item, in order *)
RenderStrategyCards(strategiesData) ==
    [i \in DOMAIN strategiesData |-> RenderCard(strategiesData[i])]

-----------------------------------------------------------------------------
(* Backend behind the REST boundary (dashboard endpoints) *)

Strategies == {"s1", "s2"}
StrategyOrder == <<"s1", "s2">>
(* a strategy is "absent", "NotStarted", "Running" or "Paused" *)

(* The record GET /ui/dashboard-data returns for strategy s in a status:   *)
(* s1 holds a position at a known price, s2 holds none and has no price.   *)
ItemOf(s, status) ==
    [strategy_config |-> [id |-> s],
     active_state |->
        IF status = "NotStarted" THEN Null
        ELSE Some([is_running |-> (status = "Running"),
                   current_position_quantity |-> IF s = "s1" THEN 2 ELSE 0,
                   average_entry_price |-> IF s = "s1" THEN 1 ELSE 0,
                   realized_pnl_usdt |-> IF s = "s1" THEN 1 ELSE 0,
                   total_invested_usdt |-> IF s = "s1" THEN 2 ELSE 0]),
     current_market_price |-> IF s = "s1" THEN Some(2) ELSE Null]

Present(sv) == SelectSeq(StrategyOrder, LAMBDA s : sv[s] # "absent")

DashboardData(sv) ==
    [i \in DOMAIN Present(sv) |-> ItemOf(Present(sv)[i], sv[Present(sv)[i]])]

(* What a 2xx control or delete request does to the strategy. *)
Applied(status, action) ==
    IF action = "start" THEN "Running"
    ELSE IF action = "pause" THEN "Paused"
    ELSE "absent"

(* Bodies a non-2xx response can carry. *)
ErrorBodies == {"detail", "nodetail", "unparsable"}

-----------------------------------------------------------------------------
(* Call records and events *)

Call(id, fn, pc, target, action) ==
    [id |-> id, fn |-> fn, pc |-> pc, target |-> target, action |-> action,
     status |-> 0, body |-> "", data |-> <<>>, payload |-> <<>>]

Event(type, target, flag) ==
    [type |-> type, target |-> target, flag |-> flag]

(* A slice no property below singles out. *)
Quiet == Event("other", "", TRUE)

CallsOf(fn) == {c \in calls : c.fn = fn}

NoAlert == <<>>

-----------------------------------------------------------------------------
(* dashboard.js *)

LoadingInitial == "Loading strategies..."
LoadingError == "Error loading strategies."

Blank(kind) == [kind |-> kind, cards |-> <<>>]

(* renderStrategyCards, lines 22-81: the container after the call *)
RenderedOnlyWhenNewest(c, strategiesData) ==
    IF c.id + 1 = nextId
    THEN (IF Len(strategiesData) = 0 THEN Blank("no strategies")
          ELSE [kind |-> "cards", cards |-> RenderStrategyCards(strategiesData)])
    ELSE container

Rendered(c, strategiesData) ==
    IF Len(strategiesData) = 0
    THEN Blank("no strategies")
    ELSE [kind |-> "cards", cards |-> RenderStrategyCards(strategiesData)]

(* line 23 empties the container, which detaches #loading-strategies *)
AfterClear(lm) == IF lm = "attached" THEN "detached" ELSE lm

(* fetchDashboardData(), line 7: a new call suspended at await fetch *)
StartFetch(id) == Call(id, "fetchDashboardData", "fetch", "", "GET")

(* the catch block, lines 11-19 *)
CatchFetchError ==
    IF loadingMessage # "null"
    THEN /\ loadingText' = LoadingError
         /\ UNCHANGED container
    ELSE /\ container' = Blank("Could not load strategy data. Please try again later.")
         /\ UNCHANGED loadingText

(* setInterval(fetchDashboardData, 10000), line 138 *)
Tick ==
    /\ page = "dashboard"
    /\ timerActive
    /\ nextId <= MaxCalls
    /\ calls' = calls \cup {StartFetch(nextId)}
    /\ nextId' = nextId + 1
    /\ ev' = Event("tick", "", TRUE)
    /\ alertMsg' = NoAlert
    /\ UNCHANGED <<page, dashVars, apiVars, renderVars, addVars>>

(* await fetch(...) resolves with a 2xx response: line 9 awaits the body *)
FetchDashOk(c) ==
    /\ c \in CallsOf("fetchDashboardData") /\ c.pc = "fetch"
    /\ calls' = (calls \ {c}) \cup {[c EXCEPT !.pc = "json", !.status = 200,
                                               !.data = DashboardData(srv)]}
    /\ ev' = Quiet
    /\ alertMsg' = NoAlert
    /\ UNCHANGED <<page, nextId, dashVars, apiVars, renderVars, addVars>>

(* await fetch(...) rejects, or resolves non-2xx and line 8 throws *)
FetchDashFailRetries(c) ==
    /\ c \in CallsOf("fetchDashboardData") /\ c.pc = "fetch"
    /\ nextId <= MaxCalls
    /\ calls' = (calls \ {c}) \cup {StartFetch(nextId)}
    /\ nextId' = nextId + 1
    /\ CatchFetchError
    /\ lastGet' = [id |-> c.id, ok |-> FALSE, data |-> <<>>]
    /\ ev' = Event("dashFailed", "", FALSE)
    /\ alertMsg' = NoAlert
    /\ UNCHANGED <<page, srv, loadingMessage, timerActive,
                   maxResolved, apiVars, renderVars, addVars>>

FetchDashFail(c) ==
    /\ c \in CallsOf("fetchDashboardData") /\ c.pc = "fetch"
    /\ calls' = calls \ {c}
    /\ CatchFetchError
    /\ lastGet' = [id |-> c.id, ok |-> FALSE, data |-> <<>>]
    /\ ev' = Event("dashFailed", "", FALSE)
    /\ alertMsg' = NoAlert
    /\ UNCHANGED <<page, nextId, srv, loadingMessage, timerActive,
                   maxResolved, apiVars, renderVars, addVars>>

(* await response.json() resolves: line 10 renders *)
FetchDashRender(c) ==
    /\ c \in CallsOf("fetchDashboardData") /\ c.pc = "json"
    /\ calls' = calls \ {c}
    /\ container' = Rendered(c, c.data)
    /\ loadingMessage' = AfterClear(loadingMessage)
    /\ lastGet' = [id |-> c.id, ok |-> TRUE, data |-> c.data]
    /\ maxResolved' = IF c.id > maxResolved THEN c.id ELSE maxResolved
    /\ ev' = Quiet
    /\ alertMsg' = NoAlert
    /\ UNCHANGED <<page, nextId, srv, loadingText, timerActive,
                   apiVars, renderVars, addVars>>

(* The cards whose buttons are on the page (addEventListenersToControlButtons) *)
Cards == IF container.kind = "cards" THEN container.cards ELSE <<>>

(* lines 87-89: the text of #status-<id>, the first element with that id *)
CurrentStatusText(strategyId) ==
    LET idx == {i \in DOMAIN Cards : Cards[i].strategyId = strategyId}
    IN  IF idx # {}
        THEN Cards[CHOOSE i \in idx : \A j \in idx : i <= j].statusText
        ELSE "Paused/Stopped"

(* line 90 *)
ActionForInverted(currentStatusText) ==
    IF currentStatusText = "Paused/Stopped" THEN "start" ELSE "pause"

ActionFor(currentStatusText) ==
    IF currentStatusText = "Running" THEN "pause" ELSE "start"

(* error.message of the Error thrown at lines 96 / 124, or of the failure  *)
(* of response.json() on an unparsable body                                *)
ErrorMessage(body, fallback) ==
    IF body = "detail" THEN "<detail from response body>"
    ELSE IF body = "nodetail" THEN fallback
    ELSE "<JSON parse error>"

NetworkError == "<network error>"

ActionFallback(c) ==
    IF c.fn = "runPause" THEN <<"Failed to ", c.action, " strategy">>
    ELSE <<"Failed to delete strategy configuration">>

ActionAlert(c, message) ==
    IF c.fn = "runPause" THEN <<"Could not ", c.action, " strategy: ", message>>
    ELSE <<"Could not delete strategy: ", message>>

(* click on .runPauseBtn of card i, lines 85-93 *)
RunPauseClick(i) ==
    /\ page = "dashboard"
    /\ i \in DOMAIN Cards
    /\ nextId < MaxCalls
    /\ LET strategyId == Cards[i].strategyId
           action == ActionFor(CurrentStatusText(strategyId))
       IN  /\ calls' = calls \cup {Call(nextId, "runPause", "fetch", strategyId, action)}
           /\ ev' = Event("runPauseClick", strategyId, TRUE)
    /\ nextId' = nextId + 1
    /\ alertMsg' = NoAlert
    /\ UNCHANGED <<page, dashVars, apiVars, renderVars, addVars>>

(* click on .modifyBtn of card i, lines 108-111 *)
ModifyClick(i) ==
    /\ page = "dashboard"
    /\ i \in DOMAIN Cards
    /\ alertMsg' = <<"Modify functionality for strategy ID ", Cards[i].strategyId,
                     " will be implemented later.">>
    /\ ev' = Quiet
    /\ UNCHANGED <<page, calls, nextId, dashVars, apiVars, renderVars, addVars>>

(* click on .deleteStrategyBtn of card i, lines 115-121; accepted is what  *)
(* confirm() returns                                                       *)
DeleteStrategyRequestsUnconfirmed(strategyId, accepted) ==
    {Call(nextId, "deleteStrategy", "fetch", strategyId, "DELETE")}

DeleteStrategyRequests(strategyId, accepted) ==
    IF accepted
    THEN {Call(nextId, "deleteStrategy", "fetch", strategyId, "DELETE")}
    ELSE {}

DeleteStrategyClick(i, accepted) ==
    /\ page = "dashboard"
    /\ i \in DOMAIN Cards
    /\ nextId < MaxCalls
    /\ LET new == DeleteStrategyRequests(Cards[i].strategyId, accepted)
       IN  /\ calls' = calls \cup new
           /\ nextId' = nextId + Cardinality(new)
    /\ ev' = Event("deleteStrategyClick", Cards[i].strategyId, accepted)
    /\ alertMsg' = NoAlert
    /\ UNCHANGED <<page, dashVars, apiVars, renderVars, addVars>>

ActionCalls == CallsOf("runPause") \cup CallsOf("deleteStrategy")

(* lines 98-99 / 126: what a handler does after a 2xx response *)
AfterActionOkNoReload(c) == calls \ {c}

AfterActionOk(c) == (calls \ {c}) \cup {StartFetch(nextId)}

(* await fetch(...) resolves 2xx: the backend applied the action *)
ActionOk(c) ==
    /\ c \in ActionCalls /\ c.pc = "fetch"
    /\ srv[c.target] # "absent"
    /\ srv' = [srv EXCEPT ![c.target] = Applied(srv[c.target], c.action)]
    /\ calls' = AfterActionOk(c)
    /\ nextId' = nextId + Cardinality(calls' \ calls)
    /\ ev' = Event("actionOk", c.target, TRUE)
    /\ alertMsg' = NoAlert
    /\ UNCHANGED <<page, container, loadingMessage, loadingText, timerActive,
                   lastGet, maxResolved, apiVars, renderVars, addVars>>

(* await fetch(...) rejects: the catch at lines 100-103 / 127-130 *)
ActionNetworkError(c) ==
    /\ c \in ActionCalls /\ c.pc = "fetch"
    /\ calls' = calls \ {c}
    /\ alertMsg' = ActionAlert(c, NetworkError)
    /\ ev' = Event("actionFailed", c.target, FALSE)
    /\ UNCHANGED <<page, nextId, dashVars, apiVars, renderVars, addVars>>

(* await fetch(...) resolves non-2xx: lines 95 / 123 await the error body *)
ActionHttpError(c) ==
    /\ c \in ActionCalls /\ c.pc = "fetch"
    /\ calls' = (calls \ {c}) \cup {[c EXCEPT !.pc = "errorJson", !.status = 500]}
    /\ ev' = Event("actionResponse", c.target, FALSE)
    /\ alertMsg' = NoAlert
    /\ UNCHANGED <<page, nextId, dashVars, apiVars, renderVars, addVars>>

(* await response.json() settles on the error path with the body the      *)
(* response carries: throw, catch, alert                                   *)
ActionErrorAlert(c, body) ==
    /\ c \in ActionCalls /\ c.pc = "errorJson"
    /\ body \in ErrorBodies
    /\ calls' = calls \ {c}
    /\ alertMsg' = ActionAlert(c, ErrorMessage(body, ActionFallback(c)))
    /\ ev' = Event("actionFailed", c.target, FALSE)
    /\ UNCHANGED <<page, nextId, dashVars, apiVars, renderVars, addVars>>

(* The strategy engine stops a running strategy on its own. *)
StrategyStops(s) ==
    /\ page = "dashboard"
    /\ srv[s] = "Running"
    /\ srv' = [srv EXCEPT ![s] = "Paused"]
    /\ ev' = Quiet
    /\ alertMsg' = NoAlert
    /\ UNCHANGED <<page, calls, nextId, container, loadingMessage, loadingText,
                   timerActive, lastGet, maxResolved, apiVars, renderVars, addVars>>

DashNext ==
    \/ Tick
    \/ \E s \in Strategies : StrategyStops(s)
    \/ \E c \in calls : FetchDashOk(c)
    \/ \E c \in calls : FetchDashFail(c)
    \/ \E c \in calls : FetchDashRender(c)
    \/ \E i \in 1..Len(StrategyOrder) : RunPauseClick(i)
    \/ \E i \in 1..Len(StrategyOrder) : ModifyClick(i)
    \/ \E i \in 1..Len(StrategyOrder), accepted \in BOOLEAN : DeleteStrategyClick(i, accepted)
    \/ \E c \in calls : ActionOk(c)
    \/ \E c \in calls : ActionNetworkError(c)
    \/ \E c \in calls : ActionHttpError(c)
    \/ \E c \in calls, body \in ErrorBodies : ActionErrorAlert(c, body)

(* State once DOMContentLoaded has run (lines 1-3, 137-138): the first     *)
(* fetch is in flight and the interval is registered.                      *)
DashInit ==
    /\ page = "dashboard"
    /\ calls = {StartFetch(1)}
    /\ nextId = 2
    /\ alertMsg = NoAlert
    /\ ev = Quiet
    /\ srv = [s \in Strategies |-> IF s = "s1" THEN "Running" ELSE "NotStarted"]
    /\ container = Blank("initial")
    /\ loadingMessage \in {"attached", "null"}
    /\ loadingText = LoadingInitial
    /\ timerActive = TRUE
    /\ lastGet = [id |-> 0, ok |-> FALSE, data |-> <<>>]
    /\ maxResolved = 0

DashIdle ==
    /\ srv = [s \in Strategies |-> "absent"]
    /\ container = Blank("initial")
    /\ loadingMessage = "null"
    /\ loadingText = LoadingInitial
    /\ timerActive = FALSE
    /\ lastGet = [id |-> 0, ok |-> FALSE, data |-> <<>>]
    /\ maxResolved = 0

-----------------------------------------------------------------------------
(* Backend behind the REST boundary (API-key endpoints) *)

ApiOrder == <<"a1", "a2", "a3">>
CreatedId == "a3"           \* the id POST /apis/ gives a new record

(* The record GET /apis/ and GET /apis/{id} return (secret omitted). *)
ApiRecord(id) ==
    [id |-> id, alias |-> <<"alias of", id>>, api_key |-> <<"key of", id>>,
     mode |-> "live", connection_status |-> "connected"]

StoredApis(stored) == SelectSeq(ApiOrder, LAMBDA a : a \in stored)

ApiList(stored) == [i \in DOMAIN StoredApis(stored) |-> ApiRecord(StoredApis(stored)[i])]

-----------------------------------------------------------------------------
(* api_management.js *)

EmptyForm == [apiId |-> <<>>, alias |-> <<>>, api_key |-> <<>>, secret_key |-> <<>>,
              mode |-> "live"]
Typed == <<"typed">>        \* a value the user typed into a field

NoRows(kind) == [kind |-> kind, rows |-> <<>>]

Rows == IF table.kind = "rows" THEN table.rows ELSE <<>>

(* fetchApiKeys(), line 13: a new call suspended at await fetch *)
StartList(id) == Call(id, "fetchApiKeys", "fetch", "", "GET")

(* lines 17-32: one row per record, each with an Edit and a Delete button *)
TableOf(apiKeys) ==
    [kind |-> "rows",
     rows |-> [i \in DOMAIN apiKeys |->
                  [id |-> apiKeys[i].id, alias |-> apiKeys[i].alias,
                   mode |-> apiKeys[i].mode,
                   connection_status |-> apiKeys[i].connection_status]]]

ListOk(c) ==
    /\ c \in CallsOf("fetchApiKeys") /\ c.pc = "fetch"
    /\ calls' = (calls \ {c}) \cup {[c EXCEPT !.pc = "json", !.status = 200,
                                               !.data = ApiList(apiSrv)]}
    /\ ev' = Quiet
    /\ alertMsg' = NoAlert
    /\ UNCHANGED <<page, nextId, dashVars, apiVars, renderVars, addVars>>

(* lines 33-36 *)
ListFail(c) ==
    /\ c \in CallsOf("fetchApiKeys") /\ c.pc = "fetch"
    /\ calls' = calls \ {c}
    /\ table' = NoRows("Error loading API keys.")
    /\ ev' = Quiet
    /\ alertMsg' = NoAlert
    /\ UNCHANGED <<page, nextId, dashVars, apiSrv, currentEditApiId, formTitle, form,
                   secretRequired, secretPlaceholder, formVisible, renderVars, addVars>>

ListRender(c) ==
    /\ c \in CallsOf("fetchApiKeys") /\ c.pc = "json"
    /\ calls' = calls \ {c}
    /\ table' = TableOf(c.data)
    /\ ev' = Quiet
    /\ alertMsg' = NoAlert
    /\ UNCHANGED <<page, nextId, dashVars, apiSrv, currentEditApiId, formTitle, form,
                   secretRequired, secretPlaceholder, formVisible, renderVars, addVars>>

(* click on #showAddApiKeyFormBtn, lines 40-47 *)
AddClick ==
    /\ page = "api_management"
    /\ formTitle' = "Add API Key"
    /\ form' = EmptyForm
    /\ currentEditApiId' = Null
    /\ secretRequired' = TRUE
    /\ secretPlaceholder' = ""
    /\ formVisible' = TRUE
    /\ ev' = Quiet
    /\ alertMsg' = NoAlert
    /\ UNCHANGED <<page, calls, nextId, dashVars, apiSrv, table, renderVars, addVars>>

(* click on #cancelApiKeyFormBtn, lines 49-52 *)
CancelClick ==
    /\ page = "api_management"
    /\ formVisible
    /\ formVisible' = FALSE
    /\ form' = EmptyForm
    /\ ev' = Quiet
    /\ alertMsg' = NoAlert
    /\ UNCHANGED <<page, calls, nextId, dashVars, apiSrv, table, currentEditApiId,
                   formTitle, secretRequired, secretPlaceholder, renderVars, addVars>>

(* The user types into the visible form. *)
TypeSecret(v) ==
    /\ page = "api_management"
    /\ formVisible
    /\ form' = [form EXCEPT !.secret_key = v]
    /\ ev' = Quiet
    /\ alertMsg' = NoAlert
    /\ UNCHANGED <<page, calls, nextId, dashVars, apiSrv, table, currentEditApiId,
                   formTitle, secretRequired, secretPlaceholder, formVisible, renderVars, addVars>>

(* lines 57-83: the JSON body the submit handler builds from the form *)
WithoutKey(data, key) == [k \in DOMAIN data \ {key} |-> data[k]]

PayloadAlwaysWithSecret(data, editing) == WithoutKey(data, "apiId")

Payload(data, editing) ==
    IF editing /\ data.secret_key = <<>>        \* !data.secret_key
    THEN WithoutKey(WithoutKey(data, "secret_key"), "apiId")
    ELSE WithoutKey(data, "apiId")

(* lines 76-80: create mode with no secret alerts and returns *)
Blocked(data, editing) == ~editing /\ data.secret_key = <<>>

SecretRequiredAlert == <<"Secret Key is required for new API Key.">>

(* submit of #apiKeyForm, lines 55-90 *)
Submit ==
    /\ page = "api_management"
    /\ formVisible
    /\ nextId <= MaxApiCalls
    /\ LET editing == currentEditApiId # Null
           url == IF editing THEN Val(currentEditApiId) ELSE ""
           method == IF editing THEN "PUT" ELSE "POST"
       IN  IF Blocked(form, editing)
           THEN /\ alertMsg' = SecretRequiredAlert
                /\ ev' = Event("submit", url, FALSE)
                /\ UNCHANGED <<calls, nextId>>
           ELSE /\ calls' = calls \cup
                      {[Call(nextId, "submit", "fetch", url, method)
                          EXCEPT !.payload = Payload(form, editing)]}
                /\ nextId' = nextId + 1
                /\ alertMsg' = NoAlert
                /\ ev' = Event("submit", url, TRUE)
    /\ UNCHANGED <<page, dashVars, apiVars, renderVars, addVars>>

SaveAlert(message) == <<"Error saving API key: ", message>>

(* line 94 *)
HttpErrorMessage(status, detail) ==
    <<"HTTP error! status: ", status, ", message: ", detail>>

(* lines 92-95 and 101-104: what the alert carries for an error body; a   *)
(* body that does not parse makes response.json() reject at line 93, and   *)
(* the catch alerts that error's message                                   *)
SubmitErrorText(status, body) ==
    IF body = "detail" THEN HttpErrorMessage(status, "<detail from response body>")
    ELSE IF body = "nodetail" THEN HttpErrorMessage(status, "Unknown error")
    ELSE <<"<JSON parse error>">>

(* await fetch(...) rejects: catch, lines 101-104 *)
SubmitNetworkError(c) ==
    /\ c \in CallsOf("submit") /\ c.pc = "fetch"
    /\ calls' = calls \ {c}
    /\ alertMsg' = SaveAlert(<<NetworkError>>)
    /\ ev' = Event("submitFailed", c.target, FALSE)
    /\ UNCHANGED <<page, nextId, dashVars, apiVars, renderVars, addVars>>

(* await fetch(...) resolves non-2xx: line 93 awaits the error body *)
SubmitHttpError(c, body) ==
    /\ c \in CallsOf("submit") /\ c.pc = "fetch"
    /\ body \in ErrorBodies
    /\ calls' = (calls \ {c}) \cup {[c EXCEPT !.pc = "errorJson", !.status = 400,
                                               !.body = body]}
    /\ ev' = Quiet
    /\ alertMsg' = NoAlert
    /\ UNCHANGED <<page, nextId, dashVars, apiVars, renderVars, addVars>>

(* await response.json() settles on the error path: throw or reject, catch *)
SubmitErrorAlert(c) ==
    /\ c \in CallsOf("submit") /\ c.pc = "errorJson"
    /\ calls' = calls \ {c}
    /\ alertMsg' = SaveAlert(SubmitErrorText(c.status, c.body))
    /\ ev' = Event("submitFailed", c.target, FALSE)
    /\ UNCHANGED <<page, nextId, dashVars, apiVars, renderVars, addVars>>

(* await fetch(...) resolves 2xx: the backend stored the record; line 97   *)
(* awaits the body                                                         *)
SubmitOk(c) ==
    /\ c \in CallsOf("submit") /\ c.pc = "fetch"
    /\ IF c.action = "POST" THEN CreatedId \notin apiSrv ELSE c.target \in apiSrv
    /\ apiSrv' = IF c.action = "POST" THEN apiSrv \cup {CreatedId} ELSE apiSrv
    /\ calls' = (calls \ {c}) \cup {[c EXCEPT !.pc = "okJson", !.status = 200]}
    /\ ev' = Quiet
    /\ alertMsg' = NoAlert
    /\ UNCHANGED <<page, nextId, dashVars, table, currentEditApiId, formTitle, form,
                   secretRequired, secretPlaceholder, formVisible, renderVars, addVars>>

(* lines 97-100 *)
AfterSaveNoReload(c) == calls \ {c}

AfterSave(c) == (calls \ {c}) \cup {StartList(nextId)}

SubmitDone(c) ==
    /\ c \in CallsOf("submit") /\ c.pc = "okJson"
    /\ nextId <= MaxApiCalls
    /\ calls' = AfterSave(c)
    /\ nextId' = nextId + Cardinality(calls' \ calls)
    /\ formVisible' = FALSE
    /\ form' = EmptyForm
    /\ ev' = Event("submitDone", c.target, TRUE)
    /\ alertMsg' = NoAlert
    /\ UNCHANGED <<page, dashVars, apiSrv, table, currentEditApiId, formTitle,
                   secretRequired, secretPlaceholder, renderVars, addVars>>

(* click on .editBtn of row i, lines 110-114 *)
EditClick(i) ==
    /\ page = "api_management"
    /\ i \in DOMAIN Rows
    /\ nextId <= MaxApiCalls
    /\ currentEditApiId' = Some(Rows[i].id)
    /\ formTitle' = "Edit API Key"
    /\ calls' = calls \cup {Call(nextId, "edit", "fetch", Rows[i].id, "GET")}
    /\ nextId' = nextId + 1
    /\ ev' = Quiet
    /\ alertMsg' = NoAlert
    /\ UNCHANGED <<page, dashVars, apiSrv, table, form, secretRequired,
                   secretPlaceholder, formVisible, renderVars, addVars>>

EditOk(c) ==
    /\ c \in CallsOf("edit") /\ c.pc = "fetch"
    /\ c.target \in apiSrv
    /\ calls' = (calls \ {c}) \cup {[c EXCEPT !.pc = "json", !.status = 200,
                                               !.data = <<ApiRecord(c.target)>>]}
    /\ ev' = Quiet
    /\ alertMsg' = NoAlert
    /\ UNCHANGED <<page, nextId, dashVars, apiVars, renderVars, addVars>>

(* lines 129-132 *)
EditFail(c) ==
    /\ c \in CallsOf("edit") /\ c.pc = "fetch"
    /\ calls' = calls \ {c}
    /\ alertMsg' = <<"Error loading API key for editing.">>
    /\ ev' = Quiet
    /\ UNCHANGED <<page, nextId, dashVars, apiVars, renderVars, addVars>>

(* lines 116-128 *)
EditPopulate(c) ==
    /\ c \in CallsOf("edit") /\ c.pc = "json"
    /\ calls' = calls \ {c}
    /\ LET apiKey == c.data[1]
       IN  form' = [apiId |-> <<apiKey.id>>, alias |-> apiKey.alias,
                    api_key |-> apiKey.api_key, secret_key |-> <<>>,
                    mode |-> apiKey.mode]
    /\ secretPlaceholder' = "Enter new secret to change"
    /\ secretRequired' = FALSE
    /\ formVisible' = TRUE
    /\ ev' = Quiet
    /\ alertMsg' = NoAlert
    /\ UNCHANGED <<page, nextId, dashVars, apiSrv, table, currentEditApiId, formTitle,
                   renderVars, addVars>>

(* click on .deleteBtn of row i, lines 137-141 *)
DeleteApiRequests(apiId, accepted) ==
    IF accepted THEN {Call(nextId, "deleteApi", "fetch", apiId, "DELETE")} ELSE {}

DeleteApiClick(i, accepted) ==
    /\ page = "api_management"
    /\ i \in DOMAIN Rows
    /\ nextId < MaxApiCalls
    /\ LET new == DeleteApiRequests(Rows[i].id, accepted)
       IN  /\ calls' = calls \cup new
           /\ nextId' = nextId + Cardinality(new)
    /\ ev' = Event("deleteApiClick", Rows[i].id, accepted)
    /\ alertMsg' = NoAlert
    /\ UNCHANGED <<page, dashVars, apiVars, renderVars, addVars>>

DeleteAlert(message) == <<"Error deleting API key: ", message>>

(* line 150 *)
DeleteApiOk(c) ==
    /\ c \in CallsOf("deleteApi") /\ c.pc = "fetch"
    /\ c.target \in apiSrv
    /\ apiSrv' = apiSrv \ {c.target}
    /\ calls' = (calls \ {c}) \cup {StartList(nextId)}
    /\ nextId' = nextId + 1
    /\ ev' = Quiet
    /\ alertMsg' = NoAlert
    /\ UNCHANGED <<page, dashVars, table, currentEditApiId, formTitle, form,
                   secretRequired, secretPlaceholder, formVisible, renderVars, addVars>>

DeleteApiNetworkError(c) ==
    /\ c \in CallsOf("deleteApi") /\ c.pc = "fetch"
    /\ calls' = calls \ {c}
    /\ alertMsg' = DeleteAlert(NetworkError)
    /\ ev' = Quiet
    /\ UNCHANGED <<page, nextId, dashVars, apiVars, renderVars, addVars>>

DeleteApiHttpError(c) ==
    /\ c \in CallsOf("deleteApi") /\ c.pc = "fetch"
    /\ calls' = (calls \ {c}) \cup {[c EXCEPT !.pc = "errorJson", !.status = 400]}
    /\ ev' = Quiet
    /\ alertMsg' = NoAlert
    /\ UNCHANGED <<page, nextId, dashVars, apiVars, renderVars, addVars>>

(* lines 143-148 and 151-154: a body that does not parse is ignored *)
DeleteApiErrorAlert(c, body) ==
    /\ c \in CallsOf("deleteApi") /\ c.pc = "errorJson"
    /\ body \in ErrorBodies
    /\ calls' = calls \ {c}
    /\ alertMsg' = DeleteAlert(IF body = "detail" THEN "<detail from response body>"
                               ELSE "Failed to delete API key")
    /\ ev' = Quiet
    /\ UNCHANGED <<page, nextId, dashVars, apiVars, renderVars, addVars>>

ApiNext ==
    \/ \E c \in calls : ListOk(c)
    \/ \E c \in calls : ListFail(c)
    \/ \E c \in calls : ListRender(c)
    \/ AddClick
    \/ CancelClick
    \/ \E v \in {<<>>, Typed} : TypeSecret(v)
    \/ Submit
    \/ \E c \in calls : SubmitNetworkError(c)
    \/ \E c \in calls, body \in ErrorBodies : SubmitHttpError(c, body)
    \/ \E c \in calls : SubmitErrorAlert(c)
    \/ \E c \in calls : SubmitOk(c)
    \/ \E c \in calls : SubmitDone(c)
    \/ \E i \in 1..Len(ApiOrder) : EditClick(i)
    \/ \E c \in calls : EditOk(c)
    \/ \E c \in calls : EditFail(c)
    \/ \E c \in calls : EditPopulate(c)
    \/ \E i \in 1..Len(ApiOrder), accepted \in BOOLEAN : DeleteApiClick(i, accepted)
    \/ \E c \in calls : DeleteApiOk(c)
    \/ \E c \in calls : DeleteApiNetworkError(c)
    \/ \E c \in calls : DeleteApiHttpError(c)
    \/ \E c \in calls, body \in ErrorBodies : DeleteApiErrorAlert(c, body)

(* State once DOMContentLoaded has run (lines 1-8, 161): the first list    *)
(* fetch is in flight, the form is hidden and empty.                       *)
ApiInit ==
    /\ page = "api_management"
    /\ calls = {StartList(1)}
    /\ nextId = 2
    /\ alertMsg = NoAlert
    /\ ev = Quiet
    /\ apiSrv = {"a1", "a2"}
    /\ table = NoRows("initial")
    /\ currentEditApiId = Null
    /\ formTitle = ""
    /\ form = EmptyForm
    /\ secretRequired = TRUE
    /\ secretPlaceholder = ""
    /\ formVisible = FALSE

ApiIdle ==
    /\ apiSrv = {}
    /\ table = NoRows("initial")
    /\ currentEditApiId = Null
    /\ formTitle = ""
    /\ form = EmptyForm
    /\ secretRequired = TRUE
    /\ secretPlaceholder = ""
    /\ formVisible = FALSE

RenderIdle ==
    /\ item = Null
    /\ card = Null

(* add_strategy.js *)

(* What a text input can hold: up to MaxLen characters, digits or not.     *)
Digits == {"6"}
Chars == Digits \cup {"x"}
Texts == UNION {[1..n -> Chars] : n \in 0..MaxLen}

DigitValue(ch) == CASE ch = "6" -> 6

(* A JavaScript number: NaN or a value. *)
NaN == [nan |-> TRUE, v |-> 0]
Num(n) == [nan |-> FALSE, v |-> n]

(* The leading run of digits of a text. *)
RECURSIVE DigitPrefix(_)
DigitPrefix(text) ==
    IF text = <<>> \/ Head(text) \notin Digits
    THEN <<>>
    ELSE <<Head(text)>> \o DigitPrefix(Tail(text))

RECURSIVE DecimalValue(_)
DecimalValue(digits) ==
    IF digits = <<>>
    THEN 0
    ELSE DecimalValue(SubSeq(digits, 1, Len(digits) - 1)) * 10
           + DigitValue(digits[Len(digits)])

(* parseFloat(value), lines 49 and 65: the number the longest numeric      *)
(* prefix denotes, NaN when there is none                                  *)
ParseFloat(text) ==
    IF DigitPrefix(text) = <<>> THEN NaN ELSE Num(DecimalValue(DigitPrefix(text)))

(* JSON.stringify of a number, line 78: NaN is written as null *)
JsonNumber(x) == IF x.nan THEN Null ELSE Some(x.v)

CheckboxKeys == {"cyclic_execution", "cover_orders_participate_in_profit_taking",
                 "enable_order_timeout"}

(* line 48: the keys of the form whose name contains 'percentage',         *)
(* 'amount', 'multiplier', 'count' or 'seconds'                            *)
NumericKeys == {"order_timeout_seconds"}

(* new FormData(addStrategyForm), line 42: every named control with its    *)
(* string value; a checkbox takes part only while checked                  *)
FormDataOf(f) ==
    [k \in {"api_id", "order_timeout_seconds"} \cup {b \in CheckboxKeys : f[b]} |->
        IF k \in CheckboxKeys THEN "on" ELSE f[k]]

(* formData.forEach(...), lines 44-54 *)
Collected(f) ==
    LET formData == FormDataOf(f)
    IN  [k \in DOMAIN formData \ CheckboxKeys |->
            IF k \in NumericKeys THEN ParseFloat(formData[k]) ELSE formData[k]]

(* lines 57-59: the checkboxes by their .checked *)
WithCheckboxes(f) ==
    LET data == Collected(f)
    IN  [k \in DOMAIN data \cup CheckboxKeys |->
            IF k \in CheckboxKeys THEN f[k] ELSE data[k]]

StrategyDataKeepsSeconds(f) == WithCheckboxes(f)

(* lines 43-66: the object the submit handler builds *)
StrategyData(f) ==
    LET data == WithCheckboxes(f)
    IN  IF ~data["enable_order_timeout"]
        THEN WithoutKey(data, "order_timeout_seconds")
        ELSE [k \in DOMAIN data \cup {"order_timeout_seconds"} |->
                 IF k = "order_timeout_seconds"
                 THEN ParseFloat(f["order_timeout_seconds"])
                 ELSE data[k]]

(* JSON.stringify(data), line 78 *)
JsonStringify(data) ==
    [k \in DOMAIN data |-> IF k \in NumericKeys THEN JsonNumber(data[k]) ELSE data[k]]

SelectApiAlert == <<"Please select an API Key.">>
StrategyAddedAlert == <<"Strategy added successfully!">>
StrategyAlert(message) == <<"Error adding strategy: ", message>>

(* populateApiKeys(), line 10: a new call suspended at await fetch *)
StartPopulate(id) == Call(id, "populateApiKeys", "fetch", "", "GET")

(* The values of the options of #api_id; the first option is always "". *)
OptionValues == {""} \cup {apiKeySelect.options[i] : i \in DOMAIN apiKeySelect.options}

(* lines 14-27: one option per connected key *)
OptionsOf(apiKeys) ==
    LET connected == SelectSeq(apiKeys, LAMBDA k : k.connection_status = "connected")
    IN  IF Len(connected) = 0
        THEN [kind |-> "No connected API Keys found", options |-> <<>>]
        ELSE [kind |-> "Select an API Key",
              options |-> [i \in DOMAIN connected |-> connected[i].id]]

(* await fetch('/apis/') resolves ok: line 12 awaits the body *)
PopulateOk(c) ==
    /\ c \in CallsOf("populateApiKeys") /\ c.pc = "fetch"
    /\ calls' = (calls \ {c}) \cup {[c EXCEPT !.pc = "json", !.status = 200,
                                               !.data = ApiList(apiSrv)]}
    /\ ev' = Quiet
    /\ alertMsg' = NoAlert
    /\ UNCHANGED <<page, nextId, dashVars, apiVars, renderVars, addVars>>

(* fetch rejects or !response.ok: catch, lines 28-31; replacing the        *)
(* options leaves the first one, with value "", selected                   *)
PopulateFail(c) ==
    /\ c \in CallsOf("populateApiKeys") /\ c.pc = "fetch"
    /\ calls' = calls \ {c}
    /\ apiKeySelect' = [kind |-> "Error loading API Keys", options |-> <<>>]
    /\ strategyForm' = [strategyForm EXCEPT !.api_id = ""]
    /\ ev' = Quiet
    /\ alertMsg' = NoAlert
    /\ UNCHANGED <<page, nextId, dashVars, apiVars, renderVars, strategyDefaults,
                   timeoutDisplay>>

(* response.json() resolves: lines 14-27 *)
PopulateRender(c) ==
    /\ c \in CallsOf("populateApiKeys") /\ c.pc = "json"
    /\ calls' = calls \ {c}
    /\ apiKeySelect' = OptionsOf(c.data)
    /\ strategyForm' = [strategyForm EXCEPT !.api_id = ""]
    /\ ev' = Quiet
    /\ alertMsg' = NoAlert
    /\ UNCHANGED <<page, nextId, dashVars, apiVars, renderVars, strategyDefaults,
                   timeoutDisplay>>

(* The user picks an option of #api_id. *)
SelectApi(v) ==
    /\ page = "add_strategy"
    /\ v \in OptionValues
    /\ v # strategyForm.api_id
    /\ strategyForm' = [strategyForm EXCEPT !.api_id = v]
    /\ ev' = Quiet
    /\ alertMsg' = NoAlert
    /\ UNCHANGED <<page, calls, nextId, dashVars, apiVars, renderVars, strategyDefaults,
                   apiKeySelect, timeoutDisplay>>

(* The user clicks #enable_order_timeout: change handler, lines 35-37 *)
ToggleTimeout ==
    /\ page = "add_strategy"
    /\ strategyForm' = [strategyForm EXCEPT !.enable_order_timeout = ~@]
    /\ timeoutDisplay' = IF ~strategyForm.enable_order_timeout THEN "block" ELSE "none"
    /\ ev' = Quiet
    /\ alertMsg' = NoAlert
    /\ UNCHANGED <<page, calls, nextId, dashVars, apiVars, renderVars, strategyDefaults,
                   apiKeySelect>>

(* The user types into #order_timeout_seconds while it is displayed. *)
TypeSeconds(text) ==
    /\ page = "add_strategy"
    /\ timeoutDisplay = "block"
    /\ text \in Texts
    /\ text # strategyForm.order_timeout_seconds
    /\ strategyForm' = [strategyForm EXCEPT !.order_timeout_seconds = text]
    /\ ev' = Quiet
    /\ alertMsg' = NoAlert
    /\ UNCHANGED <<page, calls, nextId, dashVars, apiVars, renderVars, strategyDefaults,
                   apiKeySelect, timeoutDisplay>>

(* submit of #addStrategyForm, lines 40-79 *)
SubmitStrategy ==
    /\ page = "add_strategy"
    /\ nextId <= MaxStrategyCalls
    /\ LET data == StrategyData(strategyForm)
       IN  IF data["api_id"] = ""                     \* !data['api_id']
           THEN /\ alertMsg' = SelectApiAlert
                /\ ev' = Event("submitStrategy", "", FALSE)
                /\ UNCHANGED <<calls, nextId>>
           ELSE /\ calls' = calls \cup
                      {[Call(nextId, "submitStrategy", "fetch", "", "POST")
                          EXCEPT !.payload = JsonStringify(data)]}
                /\ nextId' = nextId + 1
                /\ alertMsg' = NoAlert
                /\ ev' = Event("submitStrategy", "", TRUE)
    /\ UNCHANGED <<page, dashVars, apiVars, renderVars, addVars>>

(* await fetch(...) rejects: catch, lines 103-106 *)
StrategyNetworkError(c) ==
    /\ c \in CallsOf("submitStrategy") /\ c.pc = "fetch"
    /\ calls' = calls \ {c}
    /\ alertMsg' = StrategyAlert(<<NetworkError>>)
    /\ ev' = Event("strategyFailed", "", FALSE)
    /\ UNCHANGED <<page, nextId, dashVars, apiVars, renderVars, addVars>>

(* await fetch(...) resolves non-2xx: line 82 awaits the error body *)
StrategyHttpError(c) ==
    /\ c \in CallsOf("submitStrategy") /\ c.pc = "fetch"
    /\ calls' = (calls \ {c}) \cup {[c EXCEPT !.pc = "errorJson", !.status = 422]}
    /\ ev' = Quiet
    /\ alertMsg' = NoAlert
    /\ UNCHANGED <<page, nextId, dashVars, apiVars, renderVars, addVars>>

(* lines 82-94 and 103-106: the error body settles, throw, catch *)
StrategyErrorAlert(c, body) ==
    /\ c \in CallsOf("submitStrategy") /\ c.pc = "errorJson"
    /\ body \in ErrorBodies
    /\ calls' = calls \ {c}
    /\ alertMsg' = StrategyAlert(SubmitErrorText(c.status, body))
    /\ ev' = Event("strategyFailed", "", FALSE)
    /\ UNCHANGED <<page, nextId, dashVars, apiVars, renderVars, addVars>>

(* await fetch(...) resolves 2xx, lines 97-102: alert, reset the form,     *)
(* start populateApiKeys(), leave for the dashboard                        *)
StrategyOk(c) ==
    /\ c \in CallsOf("submitStrategy") /\ c.pc = "fetch"
    /\ calls' = (calls \ {c}) \cup {StartPopulate(nextId)}
    /\ nextId' = nextId + 1
    /\ alertMsg' = StrategyAddedAlert
    /\ strategyForm' = strategyDefaults
    /\ timeoutDisplay' = IF strategyDefaults.enable_order_timeout THEN "block" ELSE "none"
    /\ page' = "leaving add_strategy"
    /\ ev' = Event("strategyAdded", "", TRUE)
    /\ UNCHANGED <<dashVars, apiVars, renderVars, strategyDefaults, apiKeySelect>>

AddNext ==
    \/ \E c \in calls : PopulateOk(c)
    \/ \E c \in calls : PopulateFail(c)
    \/ \E c \in calls : PopulateRender(c)
    \/ \E v \in OptionValues : SelectApi(v)
    \/ ToggleTimeout
    \/ \E text \in Texts : TypeSeconds(text)
    \/ SubmitStrategy
    \/ \E c \in calls : StrategyNetworkError(c)
    \/ \E c \in calls : StrategyHttpError(c)
    \/ \E c \in calls, body \in ErrorBodies : StrategyErrorAlert(c, body)
    \/ \E c \in calls : StrategyOk(c)

(* The values the template gives the controls of #addStrategyForm. *)
StrategyTemplates ==
    [api_id : {""},
     order_timeout_seconds : {<<>>, <<"6">>},
     enable_order_timeout : BOOLEAN,
     cyclic_execution : {FALSE},
     cover_orders_participate_in_profit_taking : {FALSE}]

(* State once DOMContentLoaded has run (lines 1-5, 110-112): the first     *)
(* populateApiKeys() is in flight, the timeout section follows the checkbox *)
AddInit ==
    /\ page = "add_strategy"
    /\ calls = {StartPopulate(1)}
    /\ nextId = 2
    /\ alertMsg = NoAlert
    /\ ev = Quiet
    /\ strategyDefaults \in StrategyTemplates
    /\ strategyForm = strategyDefaults
    /\ apiKeySelect = [kind |-> "initial", options |-> <<>>]
    /\ timeoutDisplay = IF strategyDefaults.enable_order_timeout THEN "block" ELSE "none"
    /\ apiSrv \in {{}, {"a1"}}
    /\ table = NoRows("initial")
    /\ currentEditApiId = Null
    /\ formTitle = ""
    /\ form = EmptyForm
    /\ secretRequired = TRUE
    /\ secretPlaceholder = ""
    /\ formVisible = FALSE
    /\ DashIdle
    /\ RenderIdle

AddIdle ==
    /\ strategyForm = [api_id |-> "", order_timeout_seconds |-> <<>>,
                       enable_order_timeout |-> FALSE, cyclic_execution |-> FALSE,
                       cover_orders_participate_in_profit_taking |-> FALSE]
    /\ strategyDefaults = strategyForm
    /\ apiKeySelect = [kind |-> "initial", options |-> <<>>]
    /\ timeoutDisplay = "none"

SpecAdd == AddInit /\ [][AddNext]_vars

-----------------------------------------------------------------------------
Init ==
    \/ DashInit /\ ApiIdle /\ RenderIdle /\ AddIdle
    \/ ApiInit /\ DashIdle /\ RenderIdle /\ AddIdle

Next == DashNext \/ ApiNext

Spec == Init /\ [][Next]_vars

-----------------------------------------------------------------------------
(* The card renderer on its own: every item shape the dashboard endpoint   *)
(* can return for one strategy, rendered once.                             *)

ActiveStates ==
    [is_running : BOOLEAN,
     current_position_quantity : (0 - 1)..MaxQty,
     average_entry_price : 0..MaxPrice,
     realized_pnl_usdt : {0 - 1, 1},
     total_invested_usdt : 0..MaxInvested]

Items ==
    [strategy_config : {[id |-> "s1"]},
     active_state : {Null} \cup {Some(st) : st \in ActiveStates},
     current_market_price : {Null} \cup {Some(p) : p \in 0..MaxPrice}]

RenderInit ==
    /\ page = "dashboard"
    /\ calls = {}
    /\ nextId = 1
    /\ alertMsg = NoAlert
    /\ ev = Quiet
    /\ DashIdle
    /\ ApiIdle
    /\ item \in {Some(it) : it \in Items}
    /\ card = Null
    /\ AddIdle

RenderItem ==
    /\ card = Null
    /\ card' = Some(RenderCard(Val(item)))
    /\ ev' = Quiet
    /\ UNCHANGED <<page, calls, nextId, alertMsg, dashVars, apiVars, item, addVars>>

RenderNext == RenderItem

SpecRender == RenderInit /\ [][RenderNext]_vars

-----------------------------------------------------------------------------
(* Properties *)

(* The calls a step issues: those whose id no suspended call had before. *)
Issued == {c \in calls' : \A d \in calls : d.id # c.id}

DashFetches == CallsOf("fetchDashboardData")

(* The container a successful render of strategiesData leaves (lines 23-78). *)
Shown(strategiesData) ==
    IF Len(strategiesData) = 0
    THEN [kind |-> "no strategies", cards |-> <<>>]
    ELSE [kind |-> "cards",
          cards |-> [i \in DOMAIN strategiesData |-> RenderCard(strategiesData[i])]]

\* C1: once no GET /ui/dashboard-data is outstanding and the one whose body
\* resolved last succeeded, the container shows exactly the cards built from that
\* response, whatever its place in the issue order.
C1_LastResolvedWins ==
    (page = "dashboard" /\ DashFetches = {} /\ lastGet.ok)
        => container = Shown(lastGet.data)

\* C1 witness: the response rendered last was issued before another one that had
\* already rendered, and it carries a snapshot the backend has since left behind.
C1_Witness ==
    /\ page = "dashboard" /\ DashFetches = {} /\ lastGet.ok
    /\ lastGet.id < maxResolved
    /\ lastGet.data # DashboardData(srv)
    /\ container = Shown(lastGet.data)

\* C2 (as claimed): on a page that has the loading indicator, every failed refresh
\* leaves the container as it was and shows the error message in the indicator.
C2_AsClaimed ==
    [][(ev'.type = "dashFailed" /\ loadingMessage # "null")
          => /\ container' = container
             /\ loadingMessage' = "attached"
             /\ loadingText' = LoadingError]_vars

\* C3: the interval stays registered and a tick can always fire (below the call
\* bound); every tick issues exactly one GET /ui/dashboard-data; a failed refresh
\* or failed action issues nothing; a run/pause click issues exactly one POST and
\* an accepted delete click exactly one DELETE.
C3_PollingNeverHalts ==
    /\ []((page = "dashboard" /\ timerActive /\ nextId <= MaxCalls) => ENABLED Tick)
    /\ [][page = "dashboard" => timerActive']_vars
    /\ [][ev'.type = "tick"
            => \E c \in Issued : Issued = {c} /\ c.fn = "fetchDashboardData"
                                  /\ c.pc = "fetch"]_vars
    /\ [][ev'.type \in {"dashFailed", "actionFailed", "actionResponse"}
            => Issued = {}]_vars
    /\ [][ev'.type = "runPauseClick"
            => \E c \in Issued : Issued = {c} /\ c.fn = "runPause"]_vars
    /\ [][(ev'.type = "deleteStrategyClick" /\ ev'.flag)
            => \E c \in Issued : Issued = {c} /\ c.fn = "deleteStrategy"]_vars

\* C3 witness: a refresh has failed and a later tick's GET is in flight.
C3_Witness ==
    /\ page = "dashboard"
    /\ ev.type = "tick"
    /\ lastGet.id > 0 /\ ~lastGet.ok
    /\ \E c \in DashFetches : c.id = nextId - 1 /\ c.id > lastGet.id

\* C4: a 2xx answer to a run/pause or delete request issues exactly one reload of
\* the list and touches no card; a transport failure or non-2xx answer raises an
\* alert, issues nothing and leaves container, indicator and timer as they were.
C4_ReloadOnSuccessAlertOnFailure ==
    /\ [][ev'.type = "actionOk"
            => /\ \E c \in Issued : Issued = {c} /\ c.fn = "fetchDashboardData"
               /\ container' = container
               /\ alertMsg' = NoAlert]_vars
    /\ [][ev'.type = "actionFailed"
            => /\ alertMsg' # NoAlert
               /\ Issued = {}
               /\ UNCHANGED <<container, loadingMessage, loadingText, timerActive, srv>>]_vars
    /\ [][ev'.type = "actionResponse"
            => /\ Issued = {}
               /\ UNCHANGED <<container, loadingMessage, loadingText, timerActive, srv>>]_vars

\* C4 witness: an action has just succeeded and its reload is in flight while the
\* cards still show the state from before the action.
C4_Witness ==
    /\ ev.type = "actionOk"
    /\ \E c \in DashFetches : c.id = nextId - 1 /\ c.pc = "fetch"
    /\ container.kind = "cards"
    /\ container # Shown(DashboardData(srv))

(* The status text the page displays for a strategy. *)
DisplayedStatus(strategyId) ==
    {container.cards[i].statusText :
        i \in {j \in DOMAIN container.cards : container.cards[j].strategyId = strategyId}}

\* C5: a run/pause click issues the pause request exactly when the status text
\* displayed for that card is "Running", and the start request otherwise.
C5_ActionFromDisplayedStatus ==
    [][ev'.type = "runPauseClick"
          => \E c \in Issued :
                /\ c.fn = "runPause" /\ c.target = ev'.target
                /\ c.action \in {"pause", "start"}
                /\ (c.action = "pause") <=> (DisplayedStatus(c.target) = {"Running"})]_vars

\* C5 witness: the card still reads "Running" although the backend has stopped the
\* strategy, and the click has issued pause.
C5_Witness ==
    /\ ev.type = "runPauseClick"
    /\ srv[ev.target] = "Paused"
    /\ DisplayedStatus(ev.target) = {"Running"}
    /\ \E c \in CallsOf("runPause") : c.id = nextId - 1 /\ c.action = "pause"

DeleteClicks == {"deleteStrategyClick", "deleteApiClick"}

\* C6: a DELETE request is issued only by a delete click whose confirm() was
\* accepted, for the id of that click; a declined click changes nothing.
C6_DeleteOnlyAfterConfirm ==
    /\ [][\A c \in Issued : c.action = "DELETE"
              => ev'.type \in DeleteClicks /\ ev'.flag /\ ev'.target = c.target]_vars
    /\ [][(ev'.type \in DeleteClicks /\ ~ev'.flag)
              => UNCHANGED <<page, calls, nextId, dashVars, apiVars>>]_vars

\* C6 witness: a delete click on an API-key row was declined.
C6_Witness ==
    /\ ev.type = "deleteApiClick" /\ ~ev.flag
    /\ CallsOf("deleteApi") = {}

\* C7: a submit in edit mode issues a PUT whose body has no secret_key when the
\* secret field is blank and the typed secret unchanged otherwise; a submit in
\* create mode with a blank secret issues nothing, and every POST carries the
\* typed secret.
C7_SecretInPayload ==
    [][ev'.type = "submit"
          => IF currentEditApiId = Null /\ form.secret_key = <<>>
             THEN Issued = {} /\ ~ev'.flag
             ELSE \E c \in Issued :
                    /\ Issued = {c} /\ c.fn = "submit"
                    /\ c.action = (IF currentEditApiId # Null THEN "PUT" ELSE "POST")
                    /\ IF form.secret_key = <<>>
                       THEN "secret_key" \notin DOMAIN c.payload
                       ELSE /\ "secret_key" \in DOMAIN c.payload
                            /\ c.payload["secret_key"] = form.secret_key]_vars

\* C7 witness: a PUT is in flight whose body has no secret_key.
C7_Witness ==
    \E c \in CallsOf("submit") :
        c.action = "PUT" /\ c.pc = "fetch" /\ "secret_key" \notin DOMAIN c.payload

(* The submit call a step completes on its error path. *)
FailedSubmits == {c \in CallsOf("submit") : c.pc = "errorJson" /\ c \notin calls'}

FormKept == UNCHANGED <<table, formVisible, form, currentEditApiId>>

HasFigures(c) == c.positionInfo.kind = "figures" \/ c.pnlInfo.kind = "figures"

Computable(it) ==
    /\ it.active_state # Null
    /\ Val(it.active_state).current_position_quantity > 0
    /\ it.current_market_price # Null

\* C9: a card shows computed figures exactly when the item has an active state, a
\* quantity above zero and a price; without a state it reads "Not Started" with the
\* "not active" placeholders and no figure; with a state but no price or no
\* quantity it reads "Position: No current position" and unrealized "-".
C9_FiguresOnlyWhenComputable ==
    card # Null =>
        LET it == Val(item)
            c == Val(card)
        IN  /\ HasFigures(c) <=> Computable(it)
            /\ (c.positionInfo.kind = "figures") <=> (c.pnlInfo.kind = "figures")
            /\ it.active_state = Null
                 => /\ c.statusText = "Not Started"
                    /\ c.positionInfo.kind = "Position: Not active or no position"
                    /\ c.pnlInfo.kind = "P&L: -"
                    /\ c.positionInfo.value = NoText /\ c.pnlInfo.unrealized = NoText
            /\ (it.active_state # Null /\ ~Computable(it))
                 => /\ c.positionInfo.kind = "Position: No current position"
                    /\ c.positionInfo.value = NoText
                    /\ c.pnlInfo.unrealized = Lit("-")
                    /\ c.pnlInfo.percentage = NoText

\* C9 as worded: a card of an item without active state reads "Not Started" and
\* carries no position paragraph and no P&L paragraph at all.
C9_AsClaimed ==
    (card # Null /\ Val(item).active_state = Null)
        => /\ Val(card).statusText = "Not Started"
           /\ Val(card).positionInfo.kind = ""
           /\ Val(card).pnlInfo.kind = ""

\* C9 witness: an item with a position and a null price was rendered with the
\* placeholder.
C9_Witness ==
    /\ card # Null
    /\ Val(item).active_state # Null
    /\ Val(Val(item).active_state).current_position_quantity = MaxQty
    /\ Val(item).current_market_price = Null
    /\ Val(card).positionInfo.kind = "Position: No current position"

\* C10: for an item with quantity above zero and a price, the value shown is
\* quantity * price, the unrealized P&L shown is (price - avgEntry) * quantity, and
\* the percentage shown is a number: 0 when total_invested_usdt is 0, otherwise
\* the hundredth nearest to unrealizedPnl / totalInvested * 100.
C10_FiguresMatchFormulas ==
    (card # Null /\ Computable(Val(item))) =>
        LET st == Val(Val(item).active_state)
            price == Val(Val(item).current_market_price)
            q == st.current_position_quantity
            inv == st.total_invested_usdt
            unrealizedPnl == (price - st.average_entry_price) * q
            c == Val(card)
            pct == c.pnlInfo.percentage
        IN  /\ c.positionInfo.value = [txt |-> "num", scaled |-> q * price * 100, digits |-> 2]
            /\ c.pnlInfo.unrealized = [txt |-> "num", scaled |-> unrealizedPnl * 100, digits |-> 2]
            /\ pct.txt = "num" /\ pct.digits = 2
            /\ inv = 0 => pct.scaled = 0
            /\ inv # 0 => 2 * Abs(pct.scaled * inv - unrealizedPnl * 10000) <= Abs(inv)

\* C10 witness: nothing invested, a nonzero unrealized P&L, and 0.00% shown.
C10_Witness ==
    /\ card # Null /\ Computable(Val(item))
    /\ Val(Val(item).active_state).total_invested_usdt = 0
    /\ Val(card).pnlInfo.unrealized.scaled # 0
    /\ Val(card).pnlInfo.percentage = [txt |-> "num", scaled |-> 0, digits |-> 2]

(* The POST /strategies/ requests a step sends. *)
StrategyPosts == {c \in Issued : c.fn = "submitStrategy"}

\* C11: every POST /strategies/ body carries the key order_timeout_seconds exactly
\* when #enable_order_timeout is checked as the form is submitted, and carries the
\* checkbox state itself; with the box unchecked the key is absent whatever the
\* seconds field holds.
C11_TimeoutSecondsOnlyWhenEnabled ==
    [][\A c \in StrategyPosts :
          /\ ("order_timeout_seconds" \in DOMAIN c.payload)
                <=> strategyForm.enable_order_timeout
          /\ c.payload["enable_order_timeout"] = strategyForm.enable_order_timeout]_vars

\* C11 witness: the form was submitted with the box unchecked while the seconds
\* field held a number, and the request in flight has no order_timeout_seconds.
C11_Witness ==
    /\ ev.type = "submitStrategy" /\ ev.flag
    /\ ~strategyForm.enable_order_timeout
    /\ ParseFloat(strategyForm.order_timeout_seconds) = Num(6)
    /\ \E c \in CallsOf("submitStrategy") :
          /\ c.id = nextId - 1
          /\ "order_timeout_seconds" \notin DOMAIN c.payload

(* The create and update requests a step sends. *)
Submissions == {c \in Issued : c.fn = "submit"}

\* C12 (as claimed): a submission is sent as PUT /apis/{X} exactly when the form
\* holds record X as an Edit click loaded it, and as POST /apis/ exactly when the
\* form holds what the user entered after an Add click (no loaded record).
C12_AsClaimed ==
    [][\A c \in Submissions :
          /\ (c.action = "PUT") <=> (form.apiId # Null)
          /\ c.action = "PUT" => form.apiId = Some(c.target)
          /\ (c.action = "POST") <=> (form.apiId = Null)]_vars

====
